---- MODULE Spec2Model ----
(***************************************************************************)
(* pyapply: apply one command across the rows of a tab-delimited mapfile,  *)
(* sequentially or in a CPU-budgeted multiprocessing pool.                 *)
(*                                                                         *)
(* Strings are sequences of one-character strings, so that rstrip, split,  *)
(* replace and int() are modelled by what they do to the characters.       *)
(***************************************************************************)
EXTENDS Integers, Sequences, FiniteSets, TLC

\* ------------------------------------------------------------------ bounds
MaxRows == 2

DefaultMaxCpus == -1

\* ------------------------------------------------------- string primitives
TAB == "\t"
NL == "\n"
Whitespace == {" ", TAB, NL}
None == "None"

Min(a, b) == IF a <= b THEN a ELSE b

Range(s) == {s[k] : k \in DOMAIN s}

\* str.rstrip(): drop every trailing whitespace character.
RECURSIVE RStrip(_)
RStrip(s) ==
    IF s = <<>> THEN s
    ELSE IF s[Len(s)] \in Whitespace THEN RStrip(SubSeq(s, 1, Len(s) - 1))
    ELSE s

\* str.split(sep): the pieces between the occurrences of sep, empty ones kept.
RECURSIVE Split(_, _)
Split(s, sep) ==
    IF \A k \in 1..Len(s) : s[k] # sep THEN <<s>>
    ELSE LET k == CHOOSE k \in 1..Len(s) :
                      s[k] = sep /\ \A j \in 1..(k - 1) : s[j] # sep
         IN <<SubSeq(s, 1, k - 1)>> \o Split(SubSeq(s, k + 1, Len(s)), sep)

\* str.replace(ch, ""): every occurrence of ch removed.
RECURSIVE Remove(_, _)
Remove(s, ch) ==
    IF s = <<>> THEN <<>>
    ELSE IF Head(s) = ch THEN Remove(Tail(s), ch)
    ELSE <<Head(s)>> \o Remove(Tail(s), ch)

\* ch in s
Contains(s, ch) == \E k \in 1..Len(s) : s[k] = ch

\* list.index(x): 1-based position of the first occurrence, 0 when absent
\* (where Python raises ValueError).
RECURSIVE IndexFrom(_, _, _)
IndexFrom(xs, x, k) ==
    IF k > Len(xs) THEN 0
    ELSE IF xs[k] = x THEN k
    ELSE IndexFrom(xs, x, k + 1)

Index(xs, x) == IndexFrom(xs, x, 1)

\* int(): an optional sign followed by one or more decimal digits.
Digits == {"0", "1", "2", "3", "4", "5", "6", "7", "8", "9"}

DigitVal(c) ==
    CASE c = "0" -> 0 [] c = "1" -> 1 [] c = "2" -> 2 [] c = "3" -> 3
      [] c = "4" -> 4 [] c = "5" -> 5 [] c = "6" -> 6 [] c = "7" -> 7
      [] c = "8" -> 8 [] c = "9" -> 9

RECURSIVE NatVal(_)
NatVal(s) ==
    IF s = <<>> THEN 0
    ELSE NatVal(SubSeq(s, 1, Len(s) - 1)) * 10 + DigitVal(s[Len(s)])

IsNat(s) == s # <<>> /\ \A k \in 1..Len(s) : s[k] \in Digits

IsInt(s) ==
    /\ s # <<>>
    /\ IF s[1] \in {"-", "+"} THEN IsNat(Tail(s)) ELSE IsNat(s)

IntVal(s) ==
    IF s[1] = "-" THEN 0 - NatVal(Tail(s))
    ELSE IF s[1] = "+" THEN NatVal(Tail(s))
    ELSE NatVal(s)

\* Python's // : the floor of the quotient, for a divisor of either sign.
FloorDiv(a, b) == IF b > 0 THEN a \div b ELSE (0 - a) \div (0 - b)

\* ------------------------------------------------ insertion-ordered dicts
\* A dict is its keys in insertion order and the value of each key.
EmptyDict == [keys |-> <<>>, vals |-> <<>>]

DictLen(d) == Len(d.keys)

\* d[k].append(v) on a defaultdict(list)
DictAppend(d, k, v) ==
    IF k \in Range(d.keys)
    THEN [d EXCEPT !.vals[Index(d.keys, k)] = Append(@, v)]
    ELSE [keys |-> Append(d.keys, k), vals |-> Append(d.vals, <<v>>)]

\* d[k] = v on a dict
DictSet(d, k, v) ==
    IF k \in Range(d.keys)
    THEN [d EXCEPT !.vals[Index(d.keys, k)] = v]
    ELSE [keys |-> Append(d.keys, k), vals |-> Append(d.vals, v)]

DictGet(d, k) == d.vals[Index(d.keys, k)]

\* ------------------------------------------------------------ read_mapfile
\* for column, value in zip(header, values): vararg_map[column].append(value)
RECURSIVE ZipAppend(_, _, _, _)
ZipAppend(d, header, values, k) ==
    IF k > Min(Len(header), Len(values)) THEN d
    ELSE ZipAppend(DictAppend(d, header[k], values[k]), header, values, k + 1)

\* for line in fp: values = line.rstrip().split("\t"); ...
RECURSIVE ReadLines(_, _, _, _)
ReadLines(d, header, lines, k) ==
    IF k > Len(lines) THEN d
    ELSE ReadLines(ZipAppend(d, header, Split(RStrip(lines[k]), TAB), 1),
                   header, lines, k + 1)

\* fp.readline() at end of file is the empty string.
HeaderOf(file) == Split(RStrip(IF file = <<>> THEN <<>> ELSE Head(file)), TAB)

read_mapfile(file) ==
    ReadLines(EmptyDict, HeaderOf(file),
              IF file = <<>> THEN <<>> ELSE Tail(file), 1)

\* ------------------------------------------------------------- split_args
IsVarArg(arg) == Contains(arg, "{")

VarArgsOf(args) == SelectSeq(args, IsVarArg)

IsConstArg(arg) == ~IsVarArg(arg)

ConstArgsOf(args) == SelectSeq(args, IsConstArg)

\* (variable args, constant args)
split_args(args) == <<VarArgsOf(args), ConstArgsOf(args)>>

\* ----------------------------------------------------- map_headers_to_flag
\* flag, column = arg.split("{") raises ValueError unless there are two parts.
UnpacksToTwo(arg) == Len(Split(arg, "{")) = 2

RECURSIVE MapHeadersFrom(_, _, _)
MapHeadersFrom(d, vs, k) ==
    IF k > Len(vs) THEN d
    ELSE LET parts == Split(vs[k], "{")
         IN MapHeadersFrom(DictSet(d, Remove(parts[2], "}"), parts[1]), vs, k + 1)

map_headers_to_flag(vs) == MapHeadersFrom(EmptyDict, vs, 1)

\* ------------------------------------------------------- get_commands_list
\* commands[idx] of the defaultdict: a fresh copy of constargs the first time
\* idx is seen.  Every column enumerates idx from 0, so the keys are always
\* inserted in the order 0, 1, 2, ... and the dict is the sequence of its values.
CommandAt(cmds, idx, cargs) == IF idx <= Len(cmds) THEN cmds[idx] ELSE cargs

\* Mutant: commands[idx].append(value), the cell not split on ",".
ExtendCommandNoSplit(command, flag, value) == Append(Append(command, flag), value)

\* commands[idx].append(flag); commands[idx].extend(value.split(","))
ExtendCommand(command, flag, value) == Append(command, flag) \o Split(value, ",")

RECURSIVE AppendColumn(_, _, _, _, _)
AppendColumn(cmds, flag, values, cargs, idx) ==
    IF idx > Len(values) THEN cmds
    ELSE LET cur == ExtendCommand(CommandAt(cmds, idx, cargs), flag, values[idx])
             nxt == IF idx <= Len(cmds) THEN [cmds EXCEPT ![idx] = cur]
                    ELSE Append(cmds, cur)
         IN AppendColumn(nxt, flag, values, cargs, idx + 1)

RECURSIVE CommandsFrom(_, _, _, _, _)
CommandsFrom(cmds, vmap, cargs, c2f, k) ==
    IF k > DictLen(vmap) THEN cmds
    ELSE CommandsFrom(
             AppendColumn(cmds, DictGet(c2f, vmap.keys[k]), vmap.vals[k], cargs, 1),
             vmap, cargs, c2f, k + 1)

\* flag = column2flag[colname] raises KeyError for a column without a flag.
AllColumnsBound(vmap, c2f) == Range(vmap.keys) \subseteq Range(c2f.keys)

get_commands_list(vmap, cargs, c2f) == CommandsFrom(<<>>, vmap, cargs, c2f, 1)

\* ----------------------------------------------------------- parse_cmd_cpu
\* Mutant: the index without the + 1, so that int() reads the flag itself.
parse_cmd_cpuNoOffset(cargs, flag) ==
    LET at == Index(cargs, flag)
    IN IF at = 0 \/ ~IsInt(cargs[at]) THEN [raised |-> None, value |-> 1]
       ELSE [raised |-> None, value |-> IntVal(cargs[at])]

\* [raised |-> the exception that leaves the function, value |-> cmd_cpu]
parse_cmd_cpu(cargs, flag) ==
    LET at == Index(cargs, flag)
    IN IF at = 0 THEN [raised |-> None, value |-> 1]
       ELSE IF at + 1 > Len(cargs) THEN [raised |-> "IndexError", value |-> 0]
       ELSE IF ~IsInt(cargs[at + 1]) THEN [raised |-> None, value |-> 1]
       ELSE [raised |-> None, value |-> IntVal(cargs[at + 1])]

\* main: if cpu_one / elif cpu_arg is not None / else
ResolveCmdCpus(one, arg, maxc, cargs) ==
    IF one THEN [raised |-> None, value |-> 1]
    ELSE IF arg # <<>> THEN parse_cmd_cpu(cargs, arg[1])
    ELSE [raised |-> None, value |-> maxc]

\* main: if max_cpus <= cmd_cpus
IsSequential(maxc, cost) == maxc <= cost

\* main: jobs = max_cpus // cmd_cpus
PoolSize(maxc, cost) == FloorDiv(maxc, cost)

\* -------------------------------------------------------------- run_command
\* What the external process of one job does: it cannot be launched; it exits
\* zero; it exits nonzero with stderr that is valid UTF-8; it exits nonzero
\* with stderr that is not.
Launches == {"launched", "oserror"}
Exits == {"zero", "nonzero", "nonzero_undecodable"}

\* The exception that leaves subprocess.run(command, check=True, ...) at launch.
LaunchRaises(launch) == IF launch = "oserror" THEN "OSError" ELSE None

\* The exception that leaves run_command once the process has exited: check=True
\* raises CalledProcessError on a nonzero exit, the handler catches it and
\* logs err.stderr.decode(), which raises UnicodeDecodeError on invalid UTF-8.
ExitRaises(exit) ==
    IF exit = "nonzero_undecodable" THEN "UnicodeDecodeError" ELSE None

\* The job's record in the log: "ok" (Ran sucessfully), "failed" (logging.error).
ExitStatus(exit) ==
    CASE exit = "zero" -> "ok"
      [] exit = "nonzero" -> "failed"
      [] exit = "nonzero_undecodable" -> "crashed"

\* ------------------------------------------------------- Pool.starmap tasks
\* chunksize, extra = divmod(len(iterable), len(self._pool) * 4)
\* if extra: chunksize += 1 ; if len(iterable) == 0: chunksize = 0
ChunkSize(n, procs) ==
    IF n = 0 THEN 0
    ELSE (n \div (procs * 4)) + (IF n % (procs * 4) # 0 THEN 1 ELSE 0)

\* Pool._get_tasks: the job ids first..n in slices of size.
RECURSIVE ChunksFrom(_, _, _)
ChunksFrom(first, n, size) ==
    IF first > n \/ size = 0 THEN <<>>
    ELSE LET last == Min(first + size - 1, n)
         IN <<[k \in 1..(last - first + 1) |-> first + k - 1]>>
                \o ChunksFrom(last + 1, n, size)

TaskBatches(n, procs) == ChunksFrom(1, n, ChunkSize(n, procs))

\* ------------------------------------------------------------------ inputs
ExeName == <<"l", "s">>
ArgI == <<"-", "i", "{", "a", "}">>
ArgJ == <<"-", "j", "{", "b", "}">>
ArgK == <<"-", "k", "{", "c", "}">>
ArgTVar == <<"-", "t", "{", "b", "}">>
ArgBad == <<"-", "j", "{", "b", "}", "{">>
FlagT == <<"-", "t">>
Tok2 == <<"2">>
Tok3 == <<"3">>
Tok0 == <<"0">>
TokNeg == <<"-", "1">>
TokX == <<"x">>

ArgLists ==
    { <<ArgI, ArgJ>>,
      <<ArgI>>,
      <<ArgI, FlagT, Tok2, ArgJ>>,
      <<ArgI, ArgJ, FlagT, Tok2, FlagT, Tok3>>,
      <<ArgI, ArgJ, FlagT, TokX>>,
      <<ArgI, ArgJ, FlagT>>,
      <<ArgI, ArgJ, FlagT, Tok0>>,
      <<ArgI, ArgJ, FlagT, TokNeg>>,
      <<ArgI, ArgTVar>>,
      <<ArgI, ArgBad>>,
      <<ArgI, ArgK>> }

HeaderLines == { <<"a", TAB, "b", NL>>, <<"a", NL>> }

DataLines ==
    { <<"x", TAB, "y", NL>>,
      <<"x", ",", "y", ",", "z", TAB, "y", NL>>,
      <<"x", NL>>,
      <<"x", TAB, NL>> }

RowLists == UNION { [1..n -> DataLines] : n \in 0..MaxRows }

MaxCpusValues == {DefaultMaxCpus, 2, 3}

\* --py-cpuarg and --py-cpuone are mutually exclusive; cpu_arg is <<>> for None.
CpuFlags == { [one |-> FALSE, arg |-> <<>>],
              [one |-> TRUE, arg |-> <<>>],
              [one |-> FALSE, arg |-> <<FlagT>>] }

\* ------------------------------------------------------------------- state
VARIABLES
    mapfile,      \* the lines of the mapfile
    cmd,          \* args.cmd.as_posix()
    cmd_args,     \* args.cmd_args
    max_cpus,     \* args.max_cpus
    cpu_arg,      \* args.cpu_arg: <<>> for None, <<flag>> otherwise
    cpu_one,      \* args.cpu_one
    pc,           \* main's position
    err,          \* the exception that ended main, None while there is none
    raised_at,    \* main's position when it was raised
    vararg_map,
    varargs,
    constargs,
    column2flag,
    commands,
    cmd_cpus,     \* meaningful once pc has passed "resolve"
    mode,         \* "none", "seq" or "par"
    jobs,         \* the pool's size, meaningful in mode "par"
    status,       \* per job: "pending", "running", "ok", "failed", "crashed", "nolaunch"
    runs,         \* per job: how many times its process was launched
    taskq,        \* the pool's chunks not yet taken by a worker
    workers,      \* per worker: the rest of its chunk, head first, and whether
                  \* the head's process is running
    pool_exc      \* MapResult._value: the first exception a chunk raised

inputs == <<mapfile, cmd, cmd_args, max_cpus, cpu_arg, cpu_one>>
setup == <<vararg_map, varargs, constargs, column2flag, commands>>
dispatch == <<mode, jobs, status, runs, taskq, workers, pool_exc>>
vars == <<inputs, pc, err, raised_at, setup, cmd_cpus, dispatch>>

Init ==
    /\ \E h \in HeaderLines, rows \in RowLists : mapfile = <<h>> \o rows
    /\ cmd = ExeName
    /\ cmd_args \in ArgLists
    /\ max_cpus \in MaxCpusValues
    /\ \E f \in CpuFlags : cpu_one = f.one /\ cpu_arg = f.arg
    /\ pc = "read"
    /\ err = None
    /\ raised_at = None
    /\ vararg_map = EmptyDict
    /\ varargs = <<>>
    /\ constargs = <<>>
    /\ column2flag = EmptyDict
    /\ commands = <<>>
    /\ cmd_cpus = 0
    /\ mode = "none"
    /\ jobs = 0
    /\ status = <<>>
    /\ runs = <<>>
    /\ taskq = <<>>
    /\ workers = <<>>
    /\ pool_exc = None

Raise(e) == pc' = "error" /\ err' = e /\ raised_at' = pc

\* vararg_map = read_mapfile(mapfile)
\* varargs, constargs = split_args(args.cmd_args); constargs.insert(0, cmd)
ReadAndSplit ==
    /\ pc = "read"
    /\ vararg_map' = read_mapfile(mapfile)
    /\ varargs' = split_args(cmd_args)[1]
    /\ constargs' = <<cmd>> \o split_args(cmd_args)[2]
    /\ pc' = "check"
    /\ UNCHANGED <<inputs, err, raised_at, column2flag, commands, cmd_cpus, dispatch>>

\* Mutant: only a table with more columns than variable args is refused.
CountsDifferOneWay(vmap, vs) == DictLen(vmap) > Len(vs)

\* if len(vararg_map) != len(varargs): raise RuntimeError(msg)
CountsDiffer(vmap, vs) == DictLen(vmap) # Len(vs)

CheckCounts ==
    /\ pc = "check"
    /\ IF CountsDiffer(vararg_map, varargs)
       THEN Raise("RuntimeError")
       ELSE pc' = "bind" /\ UNCHANGED <<err, raised_at>>
    /\ UNCHANGED <<inputs, setup, cmd_cpus, dispatch>>

\* column2flag = map_headers_to_flag(varargs)
BindFlags ==
    /\ pc = "bind"
    /\ IF \A k \in 1..Len(varargs) : UnpacksToTwo(varargs[k])
       THEN /\ column2flag' = map_headers_to_flag(varargs)
            /\ pc' = "synth" /\ UNCHANGED <<err, raised_at>>
       ELSE /\ Raise("ValueError")
            /\ column2flag' = column2flag
    /\ UNCHANGED <<inputs, vararg_map, varargs, constargs, commands, cmd_cpus, dispatch>>

\* commands = get_commands_list(vararg_map, constargs, column2flag)
Synthesize ==
    /\ pc = "synth"
    /\ IF AllColumnsBound(vararg_map, column2flag)
       THEN /\ commands' = get_commands_list(vararg_map, constargs, column2flag)
            /\ status' = [i \in 1..Len(commands') |-> "pending"]
            /\ runs' = [i \in 1..Len(commands') |-> 0]
            /\ pc' = "resolve" /\ UNCHANGED <<err, raised_at>>
       ELSE /\ Raise("KeyError")
            /\ UNCHANGED <<commands, status, runs>>
    /\ UNCHANGED <<inputs, vararg_map, varargs, constargs, column2flag, cmd_cpus,
                   mode, jobs, taskq, workers, pool_exc>>

\* if cpu_one: ... elif cpu_arg is not None: ... else: ...
Resolve ==
    /\ pc = "resolve"
    /\ LET r == ResolveCmdCpus(cpu_one, cpu_arg, max_cpus, constargs)
       IN IF r.raised = None
          THEN cmd_cpus' = r.value /\ pc' = "plan" /\ UNCHANGED <<err, raised_at>>
          ELSE Raise(r.raised) /\ cmd_cpus' = cmd_cpus
    /\ UNCHANGED <<inputs, setup, dispatch>>

n_tasks == Len(commands)

Running == {i \in 1..Len(status) : status[i] = "running"}

IdleWorker == [chunk |-> <<>>, busy |-> FALSE]

\* if max_cpus <= cmd_cpus: the for loop
\* else: jobs = max_cpus // cmd_cpus; multiprocessing.Pool(processes=jobs),
\*       which raises ValueError for processes < 1; pool.starmap(...)
Plan ==
    /\ pc = "plan"
    /\ IF IsSequential(max_cpus, cmd_cpus)
       THEN /\ mode' = "seq" /\ pc' = "seq" /\ UNCHANGED <<err, raised_at>>
            /\ UNCHANGED <<jobs, taskq, workers>>
       ELSE IF cmd_cpus = 0
       THEN /\ Raise("ZeroDivisionError")
            /\ UNCHANGED <<mode, jobs, taskq, workers>>
       ELSE IF PoolSize(max_cpus, cmd_cpus) < 1
       THEN /\ Raise("ValueError")
            /\ jobs' = PoolSize(max_cpus, cmd_cpus)
            /\ UNCHANGED <<mode, taskq, workers>>
       ELSE /\ mode' = "par" /\ pc' = "par" /\ UNCHANGED <<err, raised_at>>
            /\ jobs' = PoolSize(max_cpus, cmd_cpus)
            /\ taskq' = TaskBatches(n_tasks, jobs')
            /\ workers' = [w \in 1..jobs' |-> IdleWorker]
    /\ UNCHANGED <<inputs, setup, cmd_cpus, status, runs, pool_exc>>

\* Mutant: the process is started and not waited for (Popen without wait).
RunReturnedAtLaunch(st) == TRUE

\* subprocess.run returns (or raises) only once the process it launched has
\* exited: run_command(job) has returned when the job is no longer running.
RunReturned(st) == st # "running"

\* for job_id, command in enumerate(commands): run_command(job_id, command)
\* The loop reaches job j when run_command has returned for every job before it.
LoopReaches(j) ==
    /\ j \in 1..n_tasks
    /\ status[j] = "pending"
    /\ \A i \in 1..(j - 1) : status[i] # "pending" /\ RunReturned(status[i])

\* run_command, up to the launch of the process
SeqLaunch ==
    /\ pc = "seq"
    /\ \E j \in 1..n_tasks, l \in Launches :
         /\ LoopReaches(j)
         /\ runs' = [runs EXCEPT ![j] = @ + 1]
         /\ IF LaunchRaises(l) = None
            THEN /\ status' = [status EXCEPT ![j] = "running"]
                 /\ UNCHANGED <<pc, err, raised_at>>
            ELSE /\ status' = [status EXCEPT ![j] = "nolaunch"]
                 /\ Raise(LaunchRaises(l))
    /\ UNCHANGED <<inputs, setup, cmd_cpus, mode, jobs, taskq, workers, pool_exc>>

\* run_command, from the exit of the process
SeqExit ==
    /\ pc = "seq"
    /\ \E j \in Running, e \in Exits :
         /\ status' = [status EXCEPT ![j] = ExitStatus(e)]
         /\ IF ExitRaises(e) = None
            THEN UNCHANGED <<pc, err, raised_at>>
            ELSE Raise(ExitRaises(e))
    /\ UNCHANGED <<inputs, setup, cmd_cpus, mode, jobs, runs, taskq, workers, pool_exc>>

\* the for loop is exhausted
SeqDone ==
    /\ pc = "seq"
    /\ \A i \in 1..n_tasks : status[i] # "pending" /\ RunReturned(status[i])
    /\ pc' = "done"
    /\ UNCHANGED <<inputs, err, raised_at, setup, cmd_cpus, dispatch>>

\* MapResult._set: only the first exception is stored
FirstExc(old, new) == IF old = None THEN new ELSE old

\* worker: task = get().  The workers are identical processes blocked on the
\* same queue; the one that gets the task is named as the first idle one.
WorkerGet(w) ==
    /\ pc = "par"
    /\ workers[w].chunk = <<>>
    /\ \A v \in 1..(w - 1) : workers[v].chunk # <<>>
    /\ taskq # <<>>
    /\ workers' = [workers EXCEPT ![w] = [chunk |-> Head(taskq), busy |-> FALSE]]
    /\ taskq' = Tail(taskq)
    /\ UNCHANGED <<inputs, pc, err, raised_at, setup, cmd_cpus, mode, jobs, status, runs,
                   pool_exc>>

\* starmapstar in a worker: run_command for the chunk's next job, up to the
\* launch; an exception ends the chunk, the jobs left in it are never run.
WorkerLaunch(w) ==
    /\ pc = "par"
    /\ workers[w].chunk # <<>>
    /\ ~workers[w].busy
    /\ \E l \in Launches :
         LET j == Head(workers[w].chunk)
         IN /\ runs' = [runs EXCEPT ![j] = @ + 1]
            /\ IF LaunchRaises(l) = None
               THEN /\ status' = [status EXCEPT ![j] = "running"]
                    /\ workers' = [workers EXCEPT ![w].busy = TRUE]
                    /\ pool_exc' = pool_exc
               ELSE /\ status' = [status EXCEPT ![j] = "nolaunch"]
                    /\ workers' = [workers EXCEPT ![w] = IdleWorker]
                    /\ pool_exc' = FirstExc(pool_exc, LaunchRaises(l))
    /\ UNCHANGED <<inputs, pc, err, raised_at, setup, cmd_cpus, mode, jobs, taskq>>

\* starmapstar in a worker: run_command from the exit of the process
WorkerExit(w) ==
    /\ pc = "par"
    /\ workers[w].busy
    /\ \E e \in Exits :
         LET j == Head(workers[w].chunk)
         IN /\ status' = [status EXCEPT ![j] = ExitStatus(e)]
            /\ IF ExitRaises(e) = None
               THEN /\ workers' = [workers EXCEPT
                          ![w] = [chunk |-> Tail(workers[w].chunk), busy |-> FALSE]]
                    /\ pool_exc' = pool_exc
               ELSE /\ workers' = [workers EXCEPT ![w] = IdleWorker]
                    /\ pool_exc' = FirstExc(pool_exc, ExitRaises(e))
    /\ UNCHANGED <<inputs, pc, err, raised_at, setup, cmd_cpus, mode, jobs, runs, taskq>>

\* starmap returns, or raises the stored exception, once every chunk is done
PoolJoin ==
    /\ pc = "par"
    /\ taskq = <<>>
    /\ \A w \in 1..jobs : workers[w].chunk = <<>>
    /\ IF pool_exc = None
       THEN pc' = "done" /\ UNCHANGED <<err, raised_at>>
       ELSE Raise(pool_exc)
    /\ UNCHANGED <<inputs, setup, cmd_cpus, dispatch>>

Next ==
    \/ ReadAndSplit
    \/ CheckCounts
    \/ BindFlags
    \/ Synthesize
    \/ Resolve
    \/ Plan
    \/ SeqLaunch
    \/ SeqExit
    \/ SeqDone
    \/ \E w \in 1..jobs : WorkerGet(w)
    \/ \E w \in 1..jobs : WorkerLaunch(w)
    \/ \E w \in 1..jobs : WorkerExit(w)
    \/ PoolJoin

Spec == Init /\ [][Next]_vars

\* ================================================================== claims
Terminated == pc \in {"done", "error"}

\* Plan has chosen between the loop and the pool, or has raised doing so.
PlanActed == mode # "none" \/ raised_at = "plan"

\* the cost has been resolved, or resolving it has raised
ResolveActed ==
    \/ pc \in {"plan", "seq", "par", "done"}
    \/ raised_at \in {"resolve", "plan", "seq", "par"}

NonzeroExit == {"failed", "crashed"}

\* --- the table and the commands, stated by position rather than by scanning
RowCount(vmap) == Len(vmap.vals[1])

WellFormedTable(vmap) ==
    /\ DictLen(vmap) >= 1
    /\ RowCount(vmap) >= 1
    /\ \A k \in 1..DictLen(vmap) : Len(vmap.vals[k]) = RowCount(vmap)

CoversExactly(c2f, vmap) == Range(c2f.keys) = Range(vmap.keys)

CommaPositions(cell) == {k \in 1..Len(cell) : cell[k] = ","}

\* the n-th comma of the cell; position 0 before the first, Len + 1 after the last
NthComma(cell, n) ==
    IF n = 0 THEN 0
    ELSE IF n > Cardinality(CommaPositions(cell)) THEN Len(cell) + 1
    ELSE CHOOSE p \in CommaPositions(cell) :
             Cardinality({q \in CommaPositions(cell) : q < p}) = n - 1

TokensOf(cell) ==
    [n \in 1..(Cardinality(CommaPositions(cell)) + 1) |->
        SubSeq(cell, NthComma(cell, n - 1) + 1, NthComma(cell, n) - 1)]

RECURSIVE ExpectedArgs(_, _, _, _)
ExpectedArgs(vmap, c2f, row, col) ==
    IF col > DictLen(vmap) THEN <<>>
    ELSE <<c2f.vals[CHOOSE m \in 1..DictLen(c2f) : c2f.keys[m] = vmap.keys[col]]>>
             \o TokensOf(vmap.vals[col][row])
             \o ExpectedArgs(vmap, c2f, row, col + 1)

\* C1: for a well-formed table of R >= 1 rows and a binding covering exactly
\* its columns, get_commands_list returns R commands, and command i is the
\* constant args (executable first) followed, column by column in the table's
\* column order, by the column's flag and the comma-separated tokens of row
\* i's cell.
C1_OneCommandPerRow ==
    (pc \in {"resolve", "plan", "seq", "par", "done"}
        /\ WellFormedTable(vararg_map) /\ CoversExactly(column2flag, vararg_map))
    => /\ Len(commands) = RowCount(vararg_map)
       /\ Head(constargs) = cmd
       /\ \A i \in 1..Len(commands) :
            commands[i] = constargs \o ExpectedArgs(vararg_map, column2flag, i, 1)

C1_Witness ==
    /\ pc = "resolve"
    /\ WellFormedTable(vararg_map) /\ CoversExactly(column2flag, vararg_map)
    /\ DictLen(vararg_map) = 2
    /\ Len(commands) = 2
    /\ Len(constargs) = 3
    /\ Cardinality(CommaPositions(vararg_map.vals[1][2])) = 2
    /\ commands[1] # commands[2]

\* C2: when the number of templated arguments differs from the number of
\* columns of the loaded table, main raises the mismatch error at the check,
\* no command has been generated and no process has been launched.
TemplatedCount == Cardinality({k \in 1..Len(cmd_args) : "{" \in Range(cmd_args[k])})

ColumnCount == Cardinality(Range(vararg_map.keys))

C2_MismatchAborts ==
    (pc \notin {"read", "check"} /\ TemplatedCount # ColumnCount)
    => /\ pc = "error" /\ err = "RuntimeError" /\ raised_at = "check"
       /\ commands = <<>>
       /\ status = <<>> /\ runs = <<>>

C2_Witness ==
    /\ pc = "error" /\ err = "RuntimeError"
    /\ Len(mapfile) = 3
    /\ ColumnCount = 1
    /\ TemplatedCount = 2

\* C3: when max_cpus <= cmd_cpus the jobs run one at a time and in input
\* order: at most one process is running, and a job is started only after
\* every job before it has finished.
C3_Sequential ==
    (mode # "none" /\ max_cpus <= cmd_cpus)
    => /\ Cardinality(Running) <= 1
       /\ \A i, j \in 1..n_tasks :
            (i < j /\ status[j] # "pending") => status[i] \notin {"pending", "running"}

C3_Witness ==
    /\ mode = "seq" /\ max_cpus <= cmd_cpus
    /\ n_tasks = 2
    /\ status[1] = "failed"
    /\ status[2] = "running"

\* C4: for every max_cpus and every resolved cost, 0 and negative included,
\* with max_cpus > cost, the pool runs with floor(max_cpus / cost) workers,
\* that is at least 1, never more jobs than that are running and their
\* declared cost never exceeds max_cpus.
C4_DegreeAtLeastOne ==
    (PlanActed /\ max_cpus > cmd_cpus)
    => /\ raised_at # "plan"
       /\ mode = "par"
       /\ jobs >= 1
       /\ jobs * cmd_cpus <= max_cpus /\ max_cpus < (jobs + 1) * cmd_cpus
       /\ Cardinality(Running) <= jobs
       /\ Cardinality(Running) * cmd_cpus <= max_cpus

\* C5: when every process is launched and exits (zero or nonzero), whatever
\* the degree, every job has been run exactly once when main ends.
C5_AllJobsRunOnce ==
    (Terminated /\ mode # "none" /\ \A i \in 1..n_tasks : status[i] # "nolaunch")
    => \A i \in 1..n_tasks : runs[i] = 1 /\ status[i] \in {"ok", "failed", "crashed"}

\* C6: a job whose process exits nonzero is recorded as failed and raises
\* nothing; every job after it has been run when main ends (stated for the
\* runs in which every process could be launched).
C6_NonzeroExitIsolated ==
    (\A i \in 1..n_tasks : status[i] # "nolaunch")
    => \A i \in 1..n_tasks :
         status[i] \in NonzeroExit
         => /\ status[i] = "failed"
            /\ err = None /\ pool_exc = None
            /\ Terminated => \A j \in (i + 1)..n_tasks : runs[j] = 1

\* C7: a job whose process cannot be launched is a failure of that job alone:
\* nothing is raised out of run_command, and every job after it has been run
\* when main ends.
C7_LaunchFailureIsolated ==
    \A i \in 1..n_tasks :
        status[i] = "nolaunch"
        => /\ err # "OSError" /\ pool_exc # "OSError"
           /\ Terminated => \A j \in (i + 1)..n_tasks : runs[j] = 1

\* C8: the cost is 1 when cpu_one is set; else, when cpu_arg is given and
\* occurs in the constant args, the integer value of the token after its
\* first occurrence; else, when cpu_arg is given and does not occur, 1; else
\* max_cpus, and then the dispatch is sequential.
CpuArgAt == {k \in 1..Len(constargs) : constargs[k] = cpu_arg[1]}

FirstCpuArg == CHOOSE k \in CpuArgAt : \A m \in CpuArgAt : k <= m

C8_CostResolution ==
    (pc \in {"plan", "seq", "par", "done"})
    => /\ cpu_one => cmd_cpus = 1
       /\ (/\ ~cpu_one /\ cpu_arg # <<>> /\ CpuArgAt # {}
           /\ FirstCpuArg < Len(constargs)
           /\ IsInt(constargs[FirstCpuArg + 1]))
          => cmd_cpus = IntVal(constargs[FirstCpuArg + 1])
       /\ (~cpu_one /\ cpu_arg # <<>> /\ CpuArgAt = {}) => cmd_cpus = 1
       /\ (~cpu_one /\ cpu_arg = <<>>)
          => cmd_cpus = max_cpus /\ (pc # "plan" => mode = "seq")

C8_Witness ==
    /\ pc = "par"
    /\ ~cpu_one /\ cpu_arg # <<>>
    /\ Cardinality(CpuArgAt) = 2
    /\ cmd_cpus = 2
    /\ max_cpus = 3

\* C9: when cpu_one is not set and the token after cpu_arg in the constant
\* args is not an integer, resolving the cost raises and no job is started.
C9_NonIntegerCostAborts ==
    (/\ ResolveActed
     /\ ~cpu_one /\ cpu_arg # <<>> /\ CpuArgAt # {}
     /\ FirstCpuArg < Len(constargs)
     /\ ~IsInt(constargs[FirstCpuArg + 1]))
    => /\ pc = "error" /\ raised_at = "resolve"
       /\ \A i \in 1..n_tasks : runs[i] = 0

\* C10: a data row with fewer fields than the header makes the load fail, and
\* no command is generated; so every table that is returned has one value per
\* data row in every column.
FieldCount(line) == Cardinality({k \in 1..Len(line) : line[k] = TAB}) + 1

HasShortRow ==
    \E k \in 2..Len(mapfile) : FieldCount(mapfile[k]) < FieldCount(mapfile[1])

C10_ShortRowRejected ==
    (pc # "read")
    => /\ HasShortRow => (pc = "error" /\ raised_at = "read" /\ commands = <<>>)
       /\ raised_at # "read"
          => \A k \in 1..DictLen(vararg_map) :
                 Len(vararg_map.vals[k]) = Len(mapfile) - 1

====
